---- MODULE Spec2Model ----
(***************************************************************************)
(* A model of CommandLineInterpreterJS.cpp: the tokenizer parseCommand,    *)
(* the dispatcher executeCommand (with the child process of the rm -rf     *)
(* path) and the read/split/dispatch loop of main.                         *)
(*                                                                         *)
(* A string is a sequence of characters, a character a one-letter string.  *)
(* A path of the file system is a sequence of names, relative to the       *)
(* directory the interpreter was started in (the empty path), which is     *)
(* taken to be its own parent, as "/" is. The lines typed hold relative    *)
(* path names only, and none that removes the working directory.           *)
(*                                                                         *)
(* cmd, args, pre, diag, heap, frees, forks and waits describe the call    *)
(* of executeCommand that is under way, or the last one that ended; they   *)
(* are cleared when the next line is read. done and line0 describe the     *)
(* line being dispatched.                                                  *)
(***************************************************************************)
EXTENDS Integers, Sequences, FiniteSets, TLC

VARIABLES
    pc,        \* where the process is: "read", "exec", "wait", "exited", "crashed"
    commands,  \* main: the commands of the current line not yet dispatched
    done,      \* main: the commands of the current line already dispatched
    line0,     \* the line read, and the working directory and file system then
    cwd,       \* the process working directory
    fs,        \* the file system: path |-> "dir", "empty" (file) or "data" (file)
    child,     \* the child of fork(): "none", "forked", "rm", "zombie"
    status,    \* the exit status of the child ("none" before it ends)
    cmd,       \* executeCommand: the command string of the current or last call
    args,      \* executeCommand: its argument vector (<<>> before the first call)
    pre,       \* the working directory and file system when the call began
    diag,      \* the diagnostics the current or last call wrote to stderr
    heap,      \* token buffers of the call that are allocated (strdup, not freed)
    frees,     \* token buffers of the call passed to free()
    forks,     \* children the call has spawned
    waits      \* children the call has reaped with waitpid()

vars == <<pc, commands, done, line0, cwd, fs, child, status,
          cmd, args, pre, diag, heap, frees, forks, waits>>

\* ------------------------------------------------------------------ bounds

\* The longest string the tokenizer is given in SpecParse.
MaxLen == 4

\* The deepest directory the session creates below its starting directory.
MaxDepth == 1

\* ------------------------------------------------------------- characters

QUOTE == "\""

SPACE == " "

SEMI == ";"

SLASH == "/"

\* The null pointer that ends an argument vector: no token holds this symbol.
NULL == <<"nullptr">>

\* ------------------------------------------------------------ parseCommand

\* The loop of parseCommand from character i on, with the arguments found
\* so far, the argument being accumulated and the quote flag (scan, below).
RECURSIVE scan(_, _, _, _, _)
\* The loop without the test of line 31: a space always ends a token.
scan_KeepSpaces(s, i, av, arg, inQuotes) ==
    IF i > Len(s)
    THEN [args |-> av, arg |-> arg, inQuotes |-> inQuotes]
    ELSE LET c == s[i]
             q == IF c = QUOTE THEN ~inQuotes ELSE inQuotes
         IN  IF c = SPACE /\ ~q
             THEN scan(s, i + 1, Append(av, arg), <<>>, q)
             ELSE scan(s, i + 1, av, Append(arg, c), q)

\* The loop with quote removal: a quote toggles the flag and is dropped.
scan_StripQuotes(s, i, av, arg, inQuotes) ==
    IF i > Len(s)
    THEN [args |-> av, arg |-> arg, inQuotes |-> inQuotes]
    ELSE LET c == s[i]
             q == IF c = QUOTE THEN ~inQuotes ELSE inQuotes
         IN  IF c = SPACE /\ ~q
             THEN IF arg # <<>>
                  THEN scan(s, i + 1, Append(av, arg), <<>>, q)
                  ELSE scan(s, i + 1, av, arg, q)
             ELSE IF c = QUOTE
                  THEN scan(s, i + 1, av, arg, q)
                  ELSE scan(s, i + 1, av, Append(arg, c), q)

\* The loop without the quote flag: every space ends a token.
scan_IgnoreQuotes(s, i, av, arg, inQuotes) ==
    IF i > Len(s)
    THEN [args |-> av, arg |-> arg, inQuotes |-> inQuotes]
    ELSE LET c == s[i]
         IN  IF c = SPACE
             THEN IF arg # <<>>
                  THEN scan(s, i + 1, Append(av, arg), <<>>, inQuotes)
                  ELSE scan(s, i + 1, av, arg, inQuotes)
             ELSE scan(s, i + 1, av, Append(arg, c), inQuotes)

\* The loop of parseCommand as the source has it.
scan(s, i, av, arg, inQuotes) ==
    IF i > Len(s)
    THEN [args |-> av, arg |-> arg, inQuotes |-> inQuotes]
    ELSE LET c == s[i]
             q == IF c = QUOTE THEN ~inQuotes ELSE inQuotes
         IN  IF c = SPACE /\ ~q
             THEN IF arg # <<>>
                  THEN scan(s, i + 1, Append(av, arg), <<>>, q)
                  ELSE scan(s, i + 1, av, arg, q)
             ELSE scan(s, i + 1, av, Append(arg, c), q)

\* The quote flag when the loop of parseCommand ends.
endInQuotes(s) == scan(s, 1, <<>>, <<>>, FALSE).inQuotes

\* parseCommand: the tokens of s, then the null pointer.
parseCommand(s) ==
    LET r == scan(s, 1, <<>>, <<>>, FALSE)
        av == IF r.arg # <<>> THEN Append(r.args, r.arg) ELSE r.args
    IN  Append(av, NULL)

\* The tokens of an argument vector: all but the null pointer.
Tokens(av) == SubSeq(av, 1, Len(av) - 1)

\* -------------------------------------------------------------------- main

\* The place of the first c in s, 0 when there is none (std::string::find).
RECURSIVE find(_, _, _)
find(s, c, i) ==
    IF i > Len(s) THEN 0
    ELSE IF s[i] = c THEN i
    ELSE find(s, c, i + 1)

\* The place of the first c in s, from i on, that is outside quotes.
RECURSIVE findOutsideQuotes(_, _, _, _)
findOutsideQuotes(s, c, i, inQuotes) ==
    IF i > Len(s) THEN 0
    ELSE IF s[i] = c /\ ~inQuotes THEN i
    ELSE findOutsideQuotes(s, c, i + 1,
                           IF s[i] = QUOTE THEN ~inQuotes ELSE inQuotes)

\* A variant of splitCommands that does not split at a ';' inside quotes.
RECURSIVE splitCommands_QuoteAware(_)
splitCommands_QuoteAware(input) ==
    LET pos == findOutsideQuotes(input, SEMI, 1, FALSE)
    IN  IF pos = 0
        THEN <<input>>
        ELSE <<SubSeq(input, 1, pos - 1)>>
                 \o splitCommands_QuoteAware(SubSeq(input, pos + 1, Len(input)))

\* The loop of main that splits the input line at every ';'.
RECURSIVE splitCommands(_)
splitCommands(input) ==
    LET pos == find(input, SEMI, 1)
    IN  IF pos = 0
        THEN <<input>>
        ELSE <<SubSeq(input, 1, pos - 1)>>
                 \o splitCommands(SubSeq(input, pos + 1, Len(input)))

\* ------------------------------------------------------- the file system

DOT == <<".">>

DOTDOT == <<".", ".">>

\* The components of a path name: its fields between slashes, empty ones dropped.
RECURSIVE components(_)
components(name) ==
    LET pos == find(name, SLASH, 1)
    IN  IF name = <<>> THEN <<>>
        ELSE IF pos = 0 THEN <<name>>
        ELSE IF pos = 1 THEN components(Tail(name))
        ELSE <<SubSeq(name, 1, pos - 1)>>
                 \o components(SubSeq(name, pos + 1, Len(name)))

parent(p) == IF p = <<>> THEN <<>> ELSE SubSeq(p, 1, Len(p) - 1)

isDir(f, p) == p \in DOMAIN f /\ f[p] = "dir"

isFile(f, p) == p \in DOMAIN f /\ f[p] \in {"empty", "data"}

\* One step of path resolution from directory at.
step(at, c) ==
    IF c = DOT THEN at
    ELSE IF c = DOTDOT THEN parent(at)
    ELSE Append(at, c)

\* Path resolution: every component but the last must be a directory; the
\* path the last component names need not exist.
RECURSIVE walk(_, _, _)
walk(f, at, comps) ==
    IF ~isDir(f, at) THEN [ok |-> FALSE, path |-> <<>>]
    ELSE IF comps = <<>> THEN [ok |-> TRUE, path |-> at]
    ELSE IF Len(comps) = 1 THEN [ok |-> TRUE, path |-> step(at, Head(comps))]
    ELSE walk(f, step(at, Head(comps)), Tail(comps))

\* The path a relative path name stands for in working directory dir. A
\* null pointer as the name makes the system call fail (EFAULT).
resolve(f, dir, name) ==
    IF name = NULL THEN [ok |-> FALSE, path |-> <<>>]
    ELSE walk(f, dir, components(name))

\* p is q or lies below q.
below(p, q) == Len(p) >= Len(q) /\ SubSeq(p, 1, Len(q)) = q

\* f with path p set to kind k.
put(f, p, k) == [x \in DOMAIN f \cup {p} |-> IF x = p THEN k ELSE f[x]]

\* f without p and everything below it.
prune(f, p) == [x \in {y \in DOMAIN f : ~below(y, p)} |-> f[x]]

\* A variant of mkdirOk that accepts a path that exists (as mkdir -p does).
mkdirOk_NoExistCheck(f, dir, name) == resolve(f, dir, name).ok

\* mkdir(2): fails when the parent cannot be reached or the path exists.
mkdirOk(f, dir, name) ==
    LET r == resolve(f, dir, name)
    IN  r.ok /\ r.path \notin DOMAIN f

mkdirFs(f, dir, name) == put(f, resolve(f, dir, name).path, "dir")

\* chdir(2): fails unless the path is a directory.
chdirOk(f, dir, name) ==
    LET r == resolve(f, dir, name)
    IN  r.ok /\ isDir(f, r.path)

chdirTo(f, dir, name) == resolve(f, dir, name).path

\* open(2) with O_CREAT | O_WRONLY | O_TRUNC: fails when the parent cannot
\* be reached or the path is a directory; creates or truncates the file.
openOk(f, dir, name) ==
    LET r == resolve(f, dir, name)
    IN  r.ok /\ ~isDir(f, r.path)

openFs(f, dir, name) == put(f, resolve(f, dir, name).path, "empty")

\* /bin/rm -rf name: removes what the name stands for, and all below it. A
\* name that stands for nothing is ignored, and so is a missing operand
\* (the null pointer ends the argument list of execlp); "." and ".." are refused.
rmFs(f, dir, name) ==
    LET r == resolve(f, dir, name)
        comps == components(name)
    IN  IF name = NULL \/ ~r.ok \/ r.path = <<>> THEN f
        ELSE IF comps[Len(comps)] \in {DOT, DOTDOT} THEN f
        ELSE prune(f, r.path)

\* ------------------------------------------------------------ the inputs

MKDIR == <<"m", "k", "d", "i", "r">>

CD == <<"c", "d">>

TOUCH == <<"t", "o", "u", "c", "h">>

RM == <<"r", "m">>

RF == <<"-", "r", "f">>

LS == <<"l", "s">>

EXIT == <<"e", "x", "i", "t">>

\* The names the session uses: a directory name, a file name, a nested path.
D == <<"d">>

F == <<"f">>

DD == <<"d", "/", "d">>

\* Words that match no command: a flag that is not -rf, a name in capitals,
\* a name in quotes.
R == <<"-", "r">>

MKDIR_CAPS == <<"M", "K", "D", "I", "R">>

MKDIR_QUOTED == <<QUOTE, "m", "k", "d", "i", "r", QUOTE>>

\* A quoted operand with a semicolon in it, "a;b", and its two halves.
A_SEMI_B == <<QUOTE, "a", SEMI, "b", QUOTE>>

QUOTE_A == <<QUOTE, "a">>

B_QUOTE == <<"b", QUOTE>>

\* a and b with one space, and with a semicolon, between them.
Sp(a, b) == a \o <<SPACE>> \o b

Semi(a, b) == a \o <<SEMI>> \o b

\* The single commands typed at the prompt.
Commands ==
    { <<>>, <<SPACE>>, LS, RM, MKDIR, CD, TOUCH,
      Sp(MKDIR, D), Sp(MKDIR, DD), Sp(CD, D), Sp(CD, DOTDOT),
      Sp(TOUCH, F), Sp(TOUCH, D),
      Sp(RM, RF), Sp(RM, Sp(RF, D)), Sp(RM, Sp(RF, F)),
      Sp(RM, Sp(RF, Sp(D, F))), Sp(RM, Sp(R, D)),
      Sp(MKDIR_CAPS, D), Sp(MKDIR_QUOTED, D), Sp(<<>>, EXIT) }

\* The lines typed at the prompt: a command, exit, or several commands.
Lines ==
    Commands \cup
    { EXIT,
      Semi(Sp(MKDIR, D), Semi(Sp(CD, D), Sp(TOUCH, F))),
      Semi(Sp(MKDIR, D), Semi(Sp(MKDIR, D), Sp(CD, D))),
      Semi(Sp(CD, D), Sp(TOUCH, F)),
      Semi(Sp(RM, RF), Sp(TOUCH, F)),
      Semi(Sp(RM, Sp(RF, D)), Sp(MKDIR, D)),
      Semi(Sp(TOUCH, F), <<>>),
      Semi(<<>>, Sp(TOUCH, F)),
      Semi(EXIT, Sp(TOUCH, F)),
      Sp(TOUCH, A_SEMI_B) }

\* The file systems the interpreter is started in: an empty directory, and
\* one that holds a file with data and a directory with a file in it.
InitialFs ==
    { [p \in {<<>>} |-> "dir"],
      [p \in {<<>>, <<F>>, <<D>>, <<D, F>>} |->
          IF p = <<F>> THEN "data" ELSE IF p = <<D, F>> THEN "empty" ELSE "dir"] }

\* ------------------------------------------------------------------- Init

Init ==
    /\ pc = "read"
    /\ commands = <<>>
    /\ done = <<>>
    /\ cwd = <<>>
    /\ fs \in InitialFs
    /\ line0 = [cwd |-> cwd, fs |-> fs, input |-> <<>>]
    /\ child = "none"
    /\ status = "none"
    /\ cmd = <<>>
    /\ args = <<>>
    /\ pre = [cwd |-> cwd, fs |-> fs]
    /\ diag = {}
    /\ heap = 0
    /\ frees = 0
    /\ forks = 0
    /\ waits = 0

\* ------------------------------------------------------------------- main

\* One turn of the loop of main: read a line; leave the loop on "exit",
\* else split the line into its commands.
ReadLine ==
    /\ pc = "read"
    /\ \E input \in Lines :
          IF input = EXIT
          THEN /\ pc' = "exited"
               /\ commands' = <<>>
               /\ line0' = [cwd |-> cwd, fs |-> fs, input |-> input]
          ELSE /\ pc' = "exec"
               /\ commands' = splitCommands(input)
               /\ line0' = [cwd |-> cwd, fs |-> fs, input |-> input]
    /\ done' = <<>>
    /\ cmd' = <<>>
    /\ args' = <<>>
    /\ pre' = [cwd |-> cwd, fs |-> fs]
    /\ diag' = {}
    /\ heap' = 0
    /\ frees' = 0
    /\ forks' = 0
    /\ waits' = 0
    /\ UNCHANGED <<cwd, fs, child, status>>

\* --------------------------------------------------------- executeCommand

\* executeCommand is entered with the next command of the line.
Enter ==
    /\ pc = "exec"
    /\ commands # <<>>
    /\ cmd' = Head(commands)
    /\ args' = parseCommand(Head(commands))
    /\ pre' = [cwd |-> cwd, fs |-> fs]

\* The argument vector of the call being entered.
av == parseCommand(Head(commands))

\* The loop that ends executeCommand: every buffer of args is freed
\* (free of the null pointer does nothing).
FreeArgs ==
    /\ heap' = 0
    /\ frees' = Len(args') - 1

\* executeCommand returns to the loop of main.
Return ==
    /\ commands' = Tail(commands)
    /\ done' = Append(done, Head(commands))
    /\ pc' = IF Len(commands) = 1 THEN "read" ELSE "exec"

\* The process ends abnormally.
Crash ==
    /\ pc' = "crashed"
    /\ heap' = Len(args') - 1
    /\ UNCHANGED <<commands, done, frees>>

\* A variant of arityError that counts the tokens, not the null pointer.
arityError_Tokens(v) == Len(v) - 1 < 3

\* The test of the rm -rf branch for a missing operand: args.size() < 3.
arityError(v) == Len(v) < 3

\* What constructing a std::string from the null pointer does is undefined:
\* the process ends abnormally (an exception nobody catches, a fault), or an
\* empty string is built, no comparison matches, and the call falls through
\* to the loop that frees the arguments.
NullString ==
    \/ Crash
    \/ FreeArgs /\ Return

\* args[0] is the null pointer (a blank command): line 58 builds a string of it.
ExecNullName ==
    /\ Enter
    /\ av[1] = NULL
    /\ NullString
    /\ diag' = {}
    /\ forks' = 0
    /\ waits' = 0
    /\ status' = "none"
    /\ UNCHANGED <<line0, cwd, fs, child>>

\* A variant of ExecMkdir that compares the command name without regard
\* to case.
ExecMkdir_AnyCase ==
    /\ Enter
    /\ av[1] \in {MKDIR, MKDIR_CAPS}
    /\ IF mkdirOk(fs, cwd, av[2])
       THEN /\ Len(resolve(fs, cwd, av[2]).path) <= MaxDepth
            /\ fs' = mkdirFs(fs, cwd, av[2])
            /\ diag' = {}
       ELSE /\ fs' = fs
            /\ diag' = {"mkdir error"}
    /\ FreeArgs
    /\ Return
    /\ forks' = 0
    /\ waits' = 0
    /\ status' = "none"
    /\ UNCHANGED <<line0, cwd, child>>

\* The mkdir branch.
ExecMkdir ==
    /\ Enter
    /\ av[1] = MKDIR
    /\ IF mkdirOk(fs, cwd, av[2])
       THEN /\ Len(resolve(fs, cwd, av[2]).path) <= MaxDepth
            /\ fs' = mkdirFs(fs, cwd, av[2])
            /\ diag' = {}
       ELSE /\ fs' = fs
            /\ diag' = {"mkdir error"}
    /\ FreeArgs
    /\ Return
    /\ forks' = 0
    /\ waits' = 0
    /\ status' = "none"
    /\ UNCHANGED <<line0, cwd, child>>

\* A variant of ExecCd that calls chdir in a child process: the working
\* directory of the interpreter stays as it was.
ExecCd_InChild ==
    /\ Enter
    /\ av[1] = CD
    /\ cwd' = cwd
    /\ diag' = IF chdirOk(fs, cwd, av[2]) THEN {} ELSE {"cd error"}
    /\ FreeArgs
    /\ Return
    /\ forks' = 0
    /\ waits' = 0
    /\ status' = "none"
    /\ UNCHANGED <<line0, fs, child>>

\* A variant of ExecCd that, given no operand, goes to the starting
\* directory (as cd does in a shell).
ExecCd_Home ==
    /\ Enter
    /\ av[1] = CD
    /\ IF av[2] = NULL
       THEN /\ cwd' = <<>>
            /\ diag' = {}
       ELSE IF chdirOk(fs, cwd, av[2])
       THEN /\ cwd' = chdirTo(fs, cwd, av[2])
            /\ diag' = {}
       ELSE /\ cwd' = cwd
            /\ diag' = {"cd error"}
    /\ FreeArgs
    /\ Return
    /\ forks' = 0
    /\ waits' = 0
    /\ status' = "none"
    /\ UNCHANGED <<line0, fs, child>>

\* The cd branch.
ExecCd ==
    /\ Enter
    /\ av[1] = CD
    /\ IF chdirOk(fs, cwd, av[2])
       THEN /\ cwd' = chdirTo(fs, cwd, av[2])
            /\ diag' = {}
       ELSE /\ cwd' = cwd
            /\ diag' = {"cd error"}
    /\ FreeArgs
    /\ Return
    /\ forks' = 0
    /\ waits' = 0
    /\ status' = "none"
    /\ UNCHANGED <<line0, fs, child>>

\* The touch branch: open, then close.
ExecTouch ==
    /\ Enter
    /\ av[1] = TOUCH
    /\ IF openOk(fs, cwd, av[2])
       THEN /\ fs' = openFs(fs, cwd, av[2])
            /\ diag' = {}
       ELSE /\ fs' = fs
            /\ diag' = {"open error"}
    /\ FreeArgs
    /\ Return
    /\ forks' = 0
    /\ waits' = 0
    /\ status' = "none"
    /\ UNCHANGED <<line0, cwd, child>>

\* args[0] is "rm" and args[1] the null pointer: line 87 builds a string of it.
ExecRmNullFlag ==
    /\ Enter
    /\ av[1] = RM
    /\ av[2] = NULL
    /\ NullString
    /\ diag' = {}
    /\ forks' = 0
    /\ waits' = 0
    /\ status' = "none"
    /\ UNCHANGED <<line0, cwd, fs, child>>

\* The rm -rf branch up to fork(): the syntax error returns at once, without
\* the loop that frees; a fork that fails is reported; after a fork that
\* succeeds the parent goes on to waitpid().
ExecRmRf ==
    /\ Enter
    /\ av[1] = RM
    /\ av[2] = RF
    /\ IF arityError(av)
       THEN /\ diag' = {"Syntax error for rm -rf"}
            /\ heap' = Len(av) - 1
            /\ frees' = 0
            /\ Return
            /\ forks' = 0
            /\ child' = child
       ELSE \/ /\ child' = "forked"
               /\ forks' = 1
               /\ pc' = "wait"
               /\ heap' = Len(av) - 1
               /\ frees' = 0
               /\ diag' = {}
               /\ UNCHANGED <<commands, done>>
            \/ /\ diag' = {"fork error"}
               /\ forks' = 0
               /\ child' = child
               /\ FreeArgs
               /\ Return
    /\ waits' = 0
    /\ status' = "none"
    /\ UNCHANGED <<line0, cwd, fs>>

\* No branch matches: the call does nothing but free the arguments.
ExecOther ==
    /\ Enter
    /\ av[1] \notin {NULL, MKDIR, CD, TOUCH}
    /\ ~(av[1] = RM /\ av[2] \in {NULL, RF})
    /\ FreeArgs
    /\ Return
    /\ diag' = {}
    /\ forks' = 0
    /\ waits' = 0
    /\ status' = "none"
    /\ UNCHANGED <<line0, cwd, fs, child>>

\* The child: execlp of /bin/rm replaces its image, or fails, and then the
\* child reports it and exits with EXIT_FAILURE.
ChildExec ==
    /\ child = "forked"
    /\ \/ /\ child' = "rm"
          /\ UNCHANGED <<status, diag>>
       \/ /\ child' = "zombie"
          /\ status' = "fail"
          /\ diag' = diag \cup {"execlp error"}
    /\ UNCHANGED <<pc, commands, done, line0, cwd, fs, cmd, args, pre,
                   heap, frees, forks, waits>>

\* A variant of ChildRm that is handed args[1] as the operand.
ChildRm_WrongOperand ==
    /\ child = "rm"
    /\ \/ /\ fs' = rmFs(fs, cwd, args[2])
          /\ status' = "ok"
       \/ /\ fs' = fs
          /\ status' = "fail"
    /\ child' = "zombie"
    /\ UNCHANGED <<pc, commands, done, line0, cwd, cmd, args, pre, diag,
                   heap, frees, forks, waits>>

\* A variant of ChildRm that is handed every operand of the command.
ChildRm_AllOperands ==
    /\ child = "rm"
    /\ \/ /\ fs' = IF Len(args) >= 5
                   THEN rmFs(rmFs(fs, cwd, args[3]), cwd, args[4])
                   ELSE rmFs(fs, cwd, args[3])
          /\ status' = "ok"
       \/ /\ fs' = fs
          /\ status' = "fail"
    /\ child' = "zombie"
    /\ UNCHANGED <<pc, commands, done, line0, cwd, cmd, args, pre, diag,
                   heap, frees, forks, waits>>

\* The child as /bin/rm -rf args[2], in the working directory it inherited:
\* it removes the target and exits with 0, or cannot and exits with 1.
ChildRm ==
    /\ child = "rm"
    /\ \/ /\ fs' = rmFs(fs, cwd, args[3])
          /\ status' = "ok"
       \/ /\ fs' = fs
          /\ status' = "fail"
    /\ child' = "zombie"
    /\ UNCHANGED <<pc, commands, done, line0, cwd, cmd, args, pre, diag,
                   heap, frees, forks, waits>>

\* A variant of ParentWait that does not block (waitpid with WNOHANG): the
\* call returns whether or not the child has ended.
ParentWait_NoHang ==
    /\ pc = "wait"
    /\ child' = IF child = "zombie" THEN "none" ELSE child
    /\ waits' = IF child = "zombie" THEN waits + 1 ELSE waits
    /\ heap' = 0
    /\ frees' = Len(args) - 1
    /\ Return
    /\ UNCHANGED <<line0, cwd, fs, status, cmd, args, pre, diag, forks>>

\* waitpid(pid, &status, 0) returns once the child has ended; the status is
\* not looked at; then the arguments are freed and the call returns.
ParentWait ==
    /\ pc = "wait"
    /\ child = "zombie"
    /\ child' = "none"
    /\ waits' = waits + 1
    /\ heap' = 0
    /\ frees' = Len(args) - 1
    /\ Return
    /\ UNCHANGED <<line0, cwd, fs, status, cmd, args, pre, diag, forks>>

Next ==
    \/ ReadLine
    \/ ExecNullName
    \/ ExecMkdir
    \/ ExecCd
    \/ ExecTouch
    \/ ExecRmNullFlag
    \/ ExecRmRf
    \/ ExecOther
    \/ ChildExec
    \/ ChildRm
    \/ ParentWait

Spec == Init /\ [][Next]_vars

\* ------------------------------------------- the tokenizer on its own

\* The characters of the strings the tokenizer is given.
Alphabet == {"a", "b", SPACE, QUOTE}

\* mkdir "my dir"
MkdirMyDir == Sp(MKDIR, <<QUOTE, "m", "y", SPACE, "d", "i", "r", QUOTE>>)

\* Every string of at most MaxLen characters, and the example of the spec.
Strings == UNION {[1..n -> Alphabet] : n \in 0..MaxLen} \cup {MkdirMyDir}

InitParse ==
    /\ pc = "parse"
    /\ cmd \in Strings
    /\ args = <<>>
    /\ commands = <<>>
    /\ done = <<>>
    /\ cwd = <<>>
    /\ fs = [p \in {<<>>} |-> "dir"]
    /\ line0 = [cwd |-> cwd, fs |-> fs, input |-> <<>>]
    /\ pre = [cwd |-> cwd, fs |-> fs]
    /\ child = "none"
    /\ status = "none"
    /\ diag = {}
    /\ heap = 0
    /\ frees = 0
    /\ forks = 0
    /\ waits = 0

\* parseCommand is applied to the string.
Tokenize ==
    /\ pc = "parse"
    /\ args' = parseCommand(cmd)
    /\ heap' = Len(args') - 1
    /\ pc' = "parsed"
    /\ UNCHANGED <<commands, done, line0, cwd, fs, child, status, cmd, pre,
                   diag, frees, forks, waits>>

NextParse == Tokenize

SpecParse == InitParse /\ [][NextParse]_vars

\* ------------------------------------------------------------ the claims

\* A call of executeCommand has returned to main, and none is under way.
Returned == pc \in {"read", "exec"} /\ args # <<>>

\* The string is empty or holds only spaces.
Blank(s) == \A i \in 1..Len(s) : s[i] = SPACE

\* The argument vector is that of rm -rf, with or without operands.
IsRmRf(v) == Len(v) >= 3 /\ v[1] = RM /\ v[2] = RF

\* C1: a command that is empty or holds only spaces is parsed to no token,
\* and executeCommand on it does nothing to the file system, the working
\* directory or any process, writes no diagnostic and returns normally.
C1_BlankCommandIsHarmless ==
    (args # <<>> /\ Blank(cmd)) =>
        /\ Tokens(args) = <<>>
        /\ pc # "crashed"
        /\ diag = {}
        /\ forks = 0
        /\ fs = pre.fs
        /\ cwd = pre.cwd

\* C2: rm -rf with no target reports a syntax error, spawns no child and
\* deletes nothing.
C2_RmRfWithoutTargetIsSyntaxError ==
    (args # <<>> /\ Tokens(args) = <<RM, RF>>) =>
        /\ forks = 0
        /\ child = "none"
        /\ fs = pre.fs
        /\ Returned => "Syntax error for rm -rf" \in diag

\* C3: on the rm -rf path the call returns only after the child it spawned
\* has ended and has been waited on exactly once; after a fork that fails an
\* error is reported, nothing is waited on and no child exists; whenever
\* executeCommand has returned there is no live and no un-reaped child.
C3_ChildAlwaysReaped ==
    /\ pc \in {"read", "exec", "exited"} => child = "none"
    /\ Returned => waits = forks
    /\ pc = "wait" => forks = 1 /\ waits = 0 /\ child # "none"
    /\ child # "none" => pc = "wait"
    /\ (Returned /\ IsRmRf(args) /\ forks = 0) =>
           "fork error" \in diag /\ waits = 0 /\ child = "none"
    /\ "fork error" \in diag => forks = 0

C3_Witness ==
    Returned /\ IsRmRf(args) /\ forks = 1 /\ waits = 1 /\ child = "none"

\* The path args[2] of the rm -rf call stood for when the call began.
target == resolve(pre.fs, pre.cwd, args[3])

\* rm -rf was called on a target that existed when the call began.
RmRfOfExisting ==
    /\ Returned
    /\ IsRmRf(args)
    /\ target.ok
    /\ target.path \in DOMAIN pre.fs

\* Neither the target nor anything below it exists.
TargetGone == \A p \in DOMAIN fs : ~below(p, target.path)

\* C4 as stated: when rm -rf target returns and target existed, target and
\* all of its contents are gone.
C4_TargetGoneOnReturn == RmRfOfExisting => TargetGone

\* C4 as amended: when rm -rf target returns, target existed, the fork
\* succeeded and the delete process ran and ended with status 0, target and
\* all of its contents are gone.
C4_TargetGoneAfterSuccessfulDelete ==
    (RmRfOfExisting /\ forks = 1 /\ status = "ok") => TargetGone

C4_Witness ==
    /\ RmRfOfExisting
    /\ forks = 1
    /\ status = "ok"
    /\ isDir(pre.fs, target.path)
    /\ \E p \in DOMAIN pre.fs : below(p, target.path) /\ p # target.path
    /\ TargetGone

\* The line mkdir d;cd d;touch f has been dispatched, in a directory that
\* had no d when the line was read.
FreshMkdirCdTouch ==
    /\ done = <<Sp(MKDIR, D), Sp(CD, D), Sp(TOUCH, F)>>
    /\ Append(line0.cwd, D) \notin DOMAIN line0.fs

\* C5: the working directory a successful cd sets persists and is the base
\* of later relative paths: after mkdir d, cd d, touch f the working
\* directory is d, the file d/f exists and f in the original directory is as
\* it was; what a call creates lies below the working directory of the call;
\* and only a successful cd changes the working directory.
C5_WorkingDirectoryPersists ==
    /\ [](FreshMkdirCdTouch =>
            /\ cwd = Append(line0.cwd, D)
            /\ isFile(fs, Append(cwd, F))
            /\ \A p \in (DOMAIN fs) \ (DOMAIN line0.fs) :
                   p \in {Append(line0.cwd, D), Append(cwd, F)}
            /\ \A p \in DOMAIN line0.fs : p \in DOMAIN fs /\ fs[p] = line0.fs[p])
    /\ [](\A p \in (DOMAIN fs) \ (DOMAIN pre.fs) : below(p, pre.cwd))
    /\ [][cwd' # cwd =>
            /\ Len(args') >= 3
            /\ args'[1] = CD
            /\ diag' = {}
            /\ isDir(fs, cwd')
            /\ cwd' = resolve(fs, cwd, args'[2]).path]_vars

C5_Witness == FreshMkdirCdTouch /\ isFile(fs, <<D, F>>) /\ cwd = <<D>>

\* mkdir d has been dispatched twice in succession.
MkdirTwice ==
    /\ Len(done) >= 2
    /\ done[1] = Sp(MKDIR, D)
    /\ done[2] = Sp(MKDIR, D)

\* C6: mkdir d twice in succession (d not there before) leaves exactly one
\* directory d; the second call reports a failure and leaves the file
\* system and the working directory as the first call left them; the
\* command after it is dispatched and acts as it would after one mkdir d.
C6_MkdirTwice ==
    /\ (MkdirTwice /\ Len(done) = 2) =>
          /\ diag = {"mkdir error"}
          /\ fs = pre.fs
          /\ cwd = pre.cwd
          /\ pc = "exec"
          /\ Append(line0.cwd, D) \notin DOMAIN line0.fs =>
                fs = put(line0.fs, Append(line0.cwd, D), "dir")
    /\ (MkdirTwice /\ Len(done) = 3 /\ done[3] = Sp(CD, D)
             /\ Append(line0.cwd, D) \notin DOMAIN line0.fs) =>
          /\ diag = {}
          /\ cwd = Append(line0.cwd, D)
          /\ fs = put(line0.fs, Append(line0.cwd, D), "dir")

C6_Witness ==
    /\ MkdirTwice
    /\ Len(done) = 2
    /\ <<D>> \notin DOMAIN line0.fs
    /\ isDir(fs, <<D>>)
    /\ diag = {"mkdir error"}

\* The quote flag of the specified scan after character i: set when the
\* number of quotes among the first i characters is odd.
FlagAfter(s, i) == Cardinality({j \in 1..i : s[j] = QUOTE}) % 2 = 1

\* Character i is a space met while the flag is false: it ends a token.
Separator(s, i) == s[i] = SPACE /\ ~FlagAfter(s, i)

\* Where the tokens of the specified scan begin: at a character that is
\* appended and follows no appended character.
TokenStarts(s) ==
    {i \in 1..Len(s) : ~Separator(s, i) /\ (i = 1 \/ Separator(s, i - 1))}

\* Where the token that begins at a ends: before the next separator.
TokenEnd(s, a) ==
    CHOOSE b \in a..Len(s) :
        /\ \A i \in a..b : ~Separator(s, i)
        /\ b = Len(s) \/ Separator(s, b + 1)

\* The k-th smallest member of a set of numbers.
Nth(S, k) == CHOOSE x \in S : Cardinality({y \in S : y < x}) = k - 1

\* The token sequence of the specified scan.
SpecTokens(s) ==
    [k \in 1..Cardinality(TokenStarts(s)) |->
        SubSeq(s, Nth(TokenStarts(s), k), TokenEnd(s, Nth(TokenStarts(s), k)))]

\* C7: parseCommand returns the token sequence of the specified scan (quotes
\* toggle the flag and are kept, a space outside quotes ends a non-empty
\* token and is otherwise absorbed, everything else is appended, the last
\* buffer is emitted), then the end marker; mkdir "my dir" yields the two
\* tokens mkdir and "my dir".
C7_ParseIsSpecifiedScan ==
    pc = "parsed" =>
        /\ Tokens(args) = SpecTokens(cmd)
        /\ args[Len(args)] = NULL
        /\ \A k \in 1..Len(Tokens(args)) : args[k] # <<>>
        /\ cmd = MkdirMyDir =>
               Tokens(args) =
                   <<MKDIR, <<QUOTE, "m", "y", SPACE, "d", "i", "r", QUOTE>>>>

C7_Witness ==
    /\ pc = "parsed"
    /\ cmd = <<QUOTE, SPACE, QUOTE, SPACE>>
    /\ Tokens(args) = <<<<QUOTE, SPACE, QUOTE>>>>

\* A naive split on the space character: the fields that spaces end (as a
\* loop of std::getline with ' ' as the delimiter reads them).
RECURSIVE naiveSplit(_)
naiveSplit(s) ==
    LET pos == find(s, SPACE, 1)
    IN  IF s = <<>> THEN <<>>
        ELSE IF pos = 0 THEN <<s>>
        ELSE <<SubSeq(s, 1, pos - 1)>>
                 \o naiveSplit(SubSeq(s, pos + 1, Len(s)))

\* The number of quote characters is even.
BalancedQuotes(s) == ~FlagAfter(s, Len(s))

\* Every space outside quotes stands alone between two tokens.
SingleSpaced(s) ==
    \A i \in 1..Len(s) :
        Separator(s, i) =>
            /\ 1 < i
            /\ i < Len(s)
            /\ ~Separator(s, i - 1)
            /\ ~Separator(s, i + 1)

\* No space stands inside quotes.
NoQuotedSpace(s) == \A i \in 1..Len(s) : s[i] = SPACE => Separator(s, i)

\* C8 as stated: with balanced quotes and single spaces between unquoted
\* tokens, the tokens are those of a naive split on the space character.
C8_NaiveSplitWhenBalanced ==
    (pc = "parsed" /\ BalancedQuotes(cmd) /\ SingleSpaced(cmd)) =>
        Tokens(args) = naiveSplit(cmd)

\* C8 as amended: with balanced quotes, single spaces between tokens and no
\* space inside quotes, the tokens are those of a naive split.
C8_NaiveSplitWhenNoQuotedSpace ==
    (pc = "parsed" /\ BalancedQuotes(cmd) /\ SingleSpaced(cmd)
         /\ NoQuotedSpace(cmd)) =>
        Tokens(args) = naiveSplit(cmd)

C8_Witness ==
    /\ pc = "parsed"
    /\ cmd = <<"a", SPACE, QUOTE, QUOTE>>
    /\ Tokens(args) = <<<<"a">>, <<QUOTE, QUOTE>>>>
    /\ Tokens(args) = naiveSplit(cmd)

\* The last call failed: its operation failed, or it was rm -rf without a
\* target (an arity error).
Failed ==
    /\ Returned
    /\ \/ diag # {}
       \/ Tokens(args) = <<RM, RF>>

\* C9: no command outcome ends the session; a command that fails writes a
\* diagnostic and leaves the file system and the working directory as they
\* were; the commands after it are dispatched.
C9_ErrorsDoNotPropagate ==
    /\ pc # "crashed"
    /\ Failed =>
          /\ diag # {}
          /\ fs = pre.fs
          /\ cwd = pre.cwd
    /\ Returned => pc = IF commands = <<>> THEN "read" ELSE "exec"

\* C10: whenever executeCommand has returned, every token buffer that
\* parseCommand allocated for the call has been freed, once; while the call
\* waits for its child the buffers are still allocated.
C10_TokensReleased ==
    /\ Returned => heap = 0 /\ frees = Len(args) - 1
    /\ pc = "wait" => heap = Len(args) - 1 /\ frees = 0

C10_Witness ==
    /\ Returned
    /\ Tokens(args) = <<RM, RF>>
    /\ frees = 2
    /\ heap = 0

\* The argument vector has a command name and matches no branch.
Unrecognized(v) ==
    /\ Len(v) >= 2
    /\ v[1] \notin {MKDIR, CD, TOUCH}
    /\ ~IsRmRf(v)

\* C11: an argument vector that matches none of mkdir, cd, touch and
\* rm -rf (any other name, rm alone, rm with another flag) is a silent
\* no-op: no change of the file system or the working directory, no
\* process, no diagnostic, and a normal return.
C11_UnrecognizedIsSilentNoOp ==
    (args # <<>> /\ Unrecognized(args)) =>
        /\ pc # "crashed"
        /\ diag = {}
        /\ forks = 0
        /\ child = "none"
        /\ fs = pre.fs
        /\ cwd = pre.cwd

\* The place of the last quote of a string that has one.
LastQuote(s) ==
    CHOOSE i \in 1..Len(s) :
        s[i] = QUOTE /\ \A j \in (i + 1)..Len(s) : s[j] # QUOTE

\* C12: with an odd number of quotes the flag is set when the scan ends,
\* the vector is well formed, and its last token runs from the last quote
\* or before it to the end of the string, spaces included.
C12_UnterminatedQuoteKeepsSpaces ==
    (pc = "parsed" /\ ~BalancedQuotes(cmd)) =>
        /\ endInQuotes(cmd)
        /\ Len(args) >= 2
        /\ args[Len(args)] = NULL
        /\ LET last == args[Len(args) - 1]
           IN  /\ Len(last) >= Len(cmd) - LastQuote(cmd) + 1
               /\ last = SubSeq(cmd, Len(cmd) - Len(last) + 1, Len(cmd))

C12_Witness ==
    /\ pc = "parsed"
    /\ cmd = <<"a", QUOTE, SPACE, "b">>
    /\ Tokens(args) = <<cmd>>

\* C13: every argument vector has at least one element, and for a blank
\* input that element is an empty name the dispatcher can read and compare.
C13_BlankYieldsReadableSentinel ==
    args # <<>> =>
        /\ Len(args) >= 1
        /\ Blank(cmd) => args[1] # NULL /\ pc # "crashed"

\* The path args[1] of the call stood for when the call began.
operand == resolve(pre.fs, pre.cwd, args[2]).path

\* C14: a call performs the one action its leading tokens select by exact
\* equality, and no other: mkdir one directory creation at args[1], cd one
\* change of the working directory to args[1], touch one creation or
\* truncation of args[1], rm -rf one spawned delete of args[2]; any other
\* name (MKDIR, "mkdir") selects none.
C14_OneActionByExactMatch ==
    args # <<>> =>
        /\ forks <= 1
        /\ waits <= forks
        /\ args[1] = MKDIR =>
              /\ cwd = pre.cwd
              /\ forks = 0
              /\ diag = {} => operand \notin DOMAIN pre.fs
                              /\ fs = put(pre.fs, operand, "dir")
              /\ diag # {} => fs = pre.fs
        /\ args[1] = CD =>
              /\ fs = pre.fs
              /\ forks = 0
              /\ diag = {} => cwd = operand
              /\ diag # {} => cwd = pre.cwd
        /\ args[1] = TOUCH =>
              /\ cwd = pre.cwd
              /\ forks = 0
              /\ diag = {} => fs = put(pre.fs, operand, "empty")
              /\ diag # {} => fs = pre.fs
        /\ IsRmRf(args) =>
              /\ cwd = pre.cwd
              /\ fs \in {pre.fs, rmFs(pre.fs, pre.cwd, args[3])}
              /\ (Returned /\ diag = {}) => forks = 1 /\ waits = 1
        /\ (args[1] \notin {MKDIR, CD, TOUCH} /\ ~IsRmRf(args)) =>
              /\ fs = pre.fs
              /\ cwd = pre.cwd
              /\ forks = 0
              /\ diag = {}

C14_Witness ==
    /\ Returned
    /\ Tokens(args) = <<MKDIR_CAPS, D>>
    /\ <<D>> \notin DOMAIN fs
    /\ diag = {}

\* C15: the commands of a line are dispatched one at a time, from left to
\* right; a child exists only while the command that spawned it, the first
\* of those not yet done, waits for it; no command is tokenized while a
\* child exists, and while one exists only the child changes anything.
C15_OneCommandAtATime ==
    /\ [](child # "none" =>
            /\ pc = "wait"
            /\ forks = 1
            /\ commands # <<>>
            /\ cmd = Head(commands))
    /\ [](pc \in {"exec", "wait"} =>
            done \o commands = splitCommands(line0.input))
    /\ [][(pc # "read" /\ done' # done) =>
            /\ done' = Append(done, Head(commands))
            /\ commands' = Tail(commands)
            /\ child' = "none"]_vars
    /\ [][(pc # "read" /\ (args' # args \/ cmd' # cmd)) =>
            /\ pc = "exec"
            /\ child = "none"
            /\ cmd' = Head(commands)]_vars
    /\ [][(child # "none" /\ (fs' # fs \/ cwd' # cwd)) =>
            /\ child = "rm"
            /\ pc' = "wait"
            /\ cwd' = cwd]_vars

C15_Witness ==
    /\ pc = "wait"
    /\ child = "rm"
    /\ commands = <<Sp(RM, Sp(RF, D)), Sp(MKDIR, D)>>
    /\ done = <<>>

\* The path the token after args[2] stood for when the call began.
extra == resolve(pre.fs, pre.cwd, args[4]).path

\* C16: the delete process is given -rf and args[2] and nothing else, so
\* what a later token names stays as it was; the exit status is collected
\* and not looked at, so whatever it is the dispatcher writes nothing and
\* returns as after a successful delete.
C16_OnlyTargetPassedStatusIgnored ==
    (Returned /\ IsRmRf(args) /\ forks = 1) =>
        /\ waits = 1
        /\ status \in {"ok", "fail"}
        /\ diag \subseteq {"execlp error"}
        /\ heap = 0
        /\ pc = IF commands = <<>> THEN "read" ELSE "exec"
        /\ fs \in {pre.fs, rmFs(pre.fs, pre.cwd, args[3])}
        /\ (Len(args) >= 5 /\ ~below(extra, target.path)) =>
               \A p \in DOMAIN pre.fs :
                   below(p, extra) => p \in DOMAIN fs /\ fs[p] = pre.fs[p]

C16_Witness ==
    /\ Returned
    /\ Tokens(args) = <<RM, RF, D, F>>
    /\ status = "ok"
    /\ isDir(pre.fs, <<D>>)
    /\ <<D>> \notin DOMAIN fs
    /\ isFile(pre.fs, <<F>>)
    /\ isFile(fs, <<F>>)

\* C17: mkdir, cd or touch with no operand changes neither the file
\* system nor the working directory, writes a diagnostic, frees its token
\* and returns, and the line goes on.
C17_MissingOperandIsReported ==
    (args # <<>> /\ Tokens(args) \in {<<MKDIR>>, <<CD>>, <<TOUCH>>}) =>
        /\ Returned
        /\ pc = IF commands = <<>> THEN "read" ELSE "exec"
        /\ fs = pre.fs
        /\ cwd = pre.cwd
        /\ forks = 0
        /\ heap = 0
        /\ frees = 1
        /\ args[1] = MKDIR => diag = {"mkdir error"}
        /\ args[1] = CD => diag = {"cd error"}
        /\ args[1] = TOUCH => diag = {"open error"}

C17_Witness ==
    /\ Returned
    /\ Tokens(args) = <<CD>>
    /\ cwd = <<D>>
    /\ diag = {"cd error"}

\* The number of semicolons of a string.
Semicolons(s) == Cardinality({i \in 1..Len(s) : s[i] = SEMI})

\* C18: the session ends only on a line that is exactly exit; exit as one
\* command of a line, or with spaces around it, is dispatched as a command
\* that matches nothing; of every other line with k semicolons each of the
\* k+1 segments is dispatched, empty ones included, so the process never
\* stops with segments of the line left over.
C18_ExitOnlyAsWholeLine ==
    /\ pc = "exited" <=> line0.input = EXIT
    /\ (args # <<>> /\ Tokens(args) = <<EXIT>>) =>
          /\ Returned
          /\ diag = {}
          /\ fs = pre.fs
          /\ cwd = pre.cwd
    /\ pc \in {"exec", "wait", "crashed"} =>
          /\ done \o commands = splitCommands(line0.input)
          /\ Len(done) + Len(commands) = Semicolons(line0.input) + 1
    /\ (Returned /\ pc = "read") => done = splitCommands(line0.input)
    /\ pc = "crashed" => Len(commands) = 1

\* C19: the split of a line at ';' ignores quotes, so touch "a;b" is
\* dispatched as touch "a (tokenized with its quote left open) and b"; no
\* command and no token that reaches the dispatcher holds a ';'.
C19_SplitIgnoresQuotes ==
    /\ \A i \in 1..Len(commands) : find(commands[i], SEMI, 1) = 0
    /\ \A i \in 1..Len(done) : find(done[i], SEMI, 1) = 0
    /\ \A k \in 1..Len(args) : find(args[k], SEMI, 1) = 0
    /\ line0.input = Sp(TOUCH, A_SEMI_B) =>
          done \o commands = <<Sp(TOUCH, QUOTE_A), B_QUOTE>>
    /\ (args # <<>> /\ cmd = Sp(TOUCH, QUOTE_A)) =>
          /\ endInQuotes(cmd)
          /\ Tokens(args) = <<TOUCH, QUOTE_A>>

C19_Witness ==
    /\ line0.input = Sp(TOUCH, A_SEMI_B)
    /\ pc = "read"
    /\ done = <<Sp(TOUCH, QUOTE_A), B_QUOTE>>
    /\ isFile(fs, <<QUOTE_A>>)
    /\ Tokens(args) = <<B_QUOTE>>

====
